---- MODULE Spec2Model ----
(***************************************************************************)
(* Sales Analysis Dashboard (src/app1.py): the script that joins the       *)
(* "Top Products" transaction table against the de-duplicated "Flipkart    *)
(* PM" catalog table and builds the Brand, Manager, Brand x FNS and        *)
(* Manager x Brand x FNS rollups.                                          *)
(*                                                                         *)
(* Text is a sequence of one-character strings, so that strip(), lower(),  *)
(* startswith(), "in", "+" and "<" are computed character by character.    *)
(* A cell of a table is text, a number or a missing value (NaN).  A table  *)
(* is a list of column headers and a list of rows, each row a list of      *)
(* cells in column order.                                                  *)
(***************************************************************************)
EXTENDS Integers, Sequences, FiniteSets

----------------------------------------------------------------------------
(* Characters and text *)

\* The characters that occur in the model, in code-point order.
Alphabet ==
    << " ", "0", "1", "2", "3", "4", "5", "6", "7", "8", "9",
       "A", "B", "C", "D", "E", "F", "G", "H", "I", "J", "K", "L", "M",
       "N", "O", "P", "Q", "R", "S", "T", "U", "V", "W", "X", "Y", "Z",
       "a", "b", "c", "d", "e", "f", "g", "h", "i", "j", "k", "l", "m",
       "n", "o", "p", "q", "r", "s", "t", "u", "v", "w", "x", "y", "z" >>

\* Rank of a character in code-point order (what str "<" compares).
CharCode(c) == CHOOSE i \in 1..Len(Alphabet) : Alphabet[i] = c

IsUpper(c) == CharCode(c) >= CharCode("A") /\ CharCode(c) <= CharCode("Z")

IsDigit(c) == CharCode(c) >= CharCode("0") /\ CharCode(c) <= CharCode("9")

\* str.lower() on one character.
LowerChar(c) ==
    IF IsUpper(c) THEN Alphabet[CharCode(c) - CharCode("A") + CharCode("a")] ELSE c

\* str.lower()
Lower(s) == [i \in 1..Len(s) |-> LowerChar(s[i])]

\* str.startswith(p)
StartsWith(s, p) == Len(s) >= Len(p) /\ SubSeq(s, 1, Len(p)) = p

\* p in s  (substring test)
Contains(s, p) ==
    \E i \in 1..(Len(s) - Len(p) + 1) : SubSeq(s, i, i + Len(p) - 1) = p

\* str.strip(): drop the leading and trailing whitespace.
RECURSIVE LStrip(_)
LStrip(s) == IF s # <<>> /\ Head(s) = " " THEN LStrip(Tail(s)) ELSE s

RECURSIVE RStrip(_)
RStrip(s) ==
    IF s # <<>> /\ s[Len(s)] = " " THEN RStrip(SubSeq(s, 1, Len(s) - 1)) ELSE s

Strip(s) == RStrip(LStrip(s))

\* Python's "<" on str: lexicographic by code point, a proper prefix first.
RECURSIVE StrLess(_, _)
StrLess(a, b) ==
    IF b = <<>> THEN FALSE
    ELSE IF a = <<>> THEN TRUE
    ELSE IF Head(a) # Head(b) THEN CharCode(Head(a)) < CharCode(Head(b))
    ELSE StrLess(Tail(a), Tail(b))

\* str(n) for a non-negative integer.
RECURSIVE Digits(_)
Digits(n) ==
    IF n < 10 THEN << Alphabet[CharCode("0") + n] >>
    ELSE Append(Digits(n \div 10), Alphabet[CharCode("0") + (n % 10)])

\* int(s) for a text made of decimal digits.
RECURSIVE DigitsValue(_)
DigitsValue(s) ==
    IF s = <<>> THEN 0
    ELSE 10 * DigitsValue(SubSeq(s, 1, Len(s) - 1))
         + (CharCode(s[Len(s)]) - CharCode("0"))

IsDigits(s) == s # <<>> /\ \A i \in 1..Len(s) : IsDigit(s[i])

----------------------------------------------------------------------------
(* The literals of the script *)

S_SkuName == <<"F", "l", "i", "p", "k", "a", "r", "t", " ", "S", "k", "u", " ", "N", "a", "m", "e">>
S_SkuId == <<"S", "K", "U", " ", "I", "D">>
S_BrandManager == <<"B", "r", "a", "n", "d", " ", "M", "a", "n", "a", "g", "e", "r">>
S_Brand == <<"B", "r", "a", "n", "d">>
S_Brand1 == <<"B", "r", "a", "n", "d", "1">>
S_Manager == <<"M", "a", "n", "a", "g", "e", "r">>
S_Cost == <<"c", "o", "s", "t">>
S_Fns == <<"F", "N", "S">>
S_VendorSkuCode == <<"V", "e", "n", "d", "o", "r", " ", "S", "K", "U", " ", "C", "o", "d", "e">>
S_GrossUnits == <<"G", "r", "o", "s", "s", " ", "U", "n", "i", "t", "s">>
S_Sales == <<"S", "a", "l", "e", "s">>
S_FinalSaleAmount == <<"F", "i", "n", "a", "l", " ", "S", "a", "l", "e", " ", "A", "m", "o", "u", "n", "t">>
S_FinalSalesAmount == <<"F", "i", "n", "a", "l", " ", "S", "a", "l", "e", "s", " ", "A", "m", "o", "u", "n", "t">>
S_GrandTotal == <<"G", "r", "a", "n", "d", " ", "T", "o", "t", "a", "l">>
S_TotalSuffix == <<" ", "T", "o", "t", "a", "l">>
S_Nan == <<"n", "a", "n">>
S_PfxCp == <<"c", "p">>
S_PfxFns == <<"f", "n", "s">>
S_SubVendor == <<"v", "e", "n", "d", "o", "r">>
S_SubSku == <<"s", "k", "u">>

----------------------------------------------------------------------------
(* Cells *)

Str(s) == [t |-> "str", s |-> s, n |-> 0]
Num(n) == [t |-> "num", s |-> <<>>, n |-> n]
NaN == [t |-> "nan", s |-> <<>>, n |-> 0]

IsNaN(c) == c.t = "nan"

\* Series.astype(str): a missing value becomes the text "nan".
AsType_str(c) ==
    IF c.t = "str" THEN c
    ELSE IF c.t = "num" THEN Str(Digits(c.n))
    ELSE Str(S_Nan)

\* Series.str.strip() on a text cell.
StrStrip(c) == IF c.t = "str" THEN Str(Strip(c.s)) ELSE c

\* Series.fillna(v)
FillNa(c, v) == IF IsNaN(c) THEN v ELSE c

\* pd.to_numeric(errors="coerce") on one cell.
ToNumeric(c) ==
    IF c.t = "num" THEN c
    ELSE IF c.t = "str" /\ IsDigits(Strip(c.s)) THEN Num(DigitsValue(Strip(c.s)))
    ELSE NaN

\* The order pandas sorts group keys and sort_values keys in: numbers before
\* text, missing values last.
CellLess(a, b) ==
    IF a.t = "nan" THEN FALSE
    ELSE IF b.t = "nan" THEN TRUE
    ELSE IF a.t = "num" THEN (b.t = "str" \/ a.n < b.n)
    ELSE b.t = "str" /\ StrLess(a.s, b.s)

\* series + " Total": defined on text; a number raises TypeError.
CanConcat(c) == c.t # "num"

Concat(c, suffix) == IF c.t = "str" THEN Str(c.s \o suffix) ELSE c

----------------------------------------------------------------------------
(* Tables *)

HasCol(cols, name) == \E i \in 1..Len(cols) : cols[i] = name

\* list.index(name): the first position holding name.
IndexOf(cols, name) ==
    CHOOSE i \in 1..Len(cols) :
        cols[i] = name /\ \A j \in 1..(i - 1) : cols[j] # name

\* df[name]: the column as a list of cells.
Column(df, name) ==
    [r \in 1..Len(df.rows) |-> df.rows[r][IndexOf(df.cols, name)]]

\* df[name] = values: overwrite the column in place, or append a new one.
SetColumn(df, name, values) ==
    IF HasCol(df.cols, name)
    THEN [df EXCEPT !.rows =
            [r \in 1..Len(df.rows) |->
                [df.rows[r] EXCEPT ![IndexOf(df.cols, name)] = values[r]]]]
    ELSE [cols |-> Append(df.cols, name),
          rows |-> [r \in 1..Len(df.rows) |-> Append(df.rows[r], values[r])]]

\* df.rename(columns={old: new})
Rename(df, old, new) ==
    [df EXCEPT !.cols = [i \in 1..Len(df.cols) |->
                            IF df.cols[i] = old THEN new ELSE df.cols[i]]]

\* df[cols]: the listed columns, in the listed order.
Select(df, cols) ==
    [cols |-> cols,
     rows |-> [r \in 1..Len(df.rows) |->
                 [i \in 1..Len(cols) |-> df.rows[r][IndexOf(df.cols, cols[i])]]]]

\* list.pop(i) leaves this list; list.insert(i, x) on a 0-based position i.
ListRemoveAt(l, i) == SubSeq(l, 1, i - 1) \o SubSeq(l, i + 1, Len(l))

ListInsert(l, pos0, x) ==
    IF pos0 >= Len(l) THEN Append(l, x)
    ELSE SubSeq(l, 1, pos0) \o <<x>> \o SubSeq(l, pos0 + 1, Len(l))

RECURSIVE SumSeq(_)
SumSeq(s) == IF s = <<>> THEN 0 ELSE Head(s) + SumSeq(Tail(s))

----------------------------------------------------------------------------
(* Ordering helpers *)

\* Lexicographic order on lists of cells (one cell per sort key).
RECURSIVE CellSeqLess(_, _)
CellSeqLess(a, b) ==
    IF a = <<>> \/ b = <<>> THEN FALSE
    ELSE IF Head(a) = Head(b) THEN CellSeqLess(Tail(a), Tail(b))
    ELSE CellLess(Head(a), Head(b))

\* The elements of a set of cell lists, ascending: the order groupby(sort=True)
\* lists its groups in.
RECURSIVE SortedKeys(_)
SortedKeys(S) ==
    IF S = {} THEN <<>>
    ELSE LET m == CHOOSE x \in S : \A y \in S \ {x} : CellSeqLess(x, y)
         IN <<m>> \o SortedKeys(S \ {m})

\* Stable sort of a list of [k |-> sort key, v |-> row] entries by k.
RECURSIVE InsertStable(_, _)
InsertStable(sorted, e) ==
    IF sorted = <<>> THEN <<e>>
    ELSE IF CellSeqLess(e.k, Head(sorted).k) THEN <<e>> \o sorted
    ELSE <<Head(sorted)>> \o InsertStable(Tail(sorted), e)

RECURSIVE StableSort(_)
StableSort(entries) ==
    IF entries = <<>> THEN <<>>
    ELSE InsertStable(StableSort(SubSeq(entries, 1, Len(entries) - 1)),
                      entries[Len(entries)])

\* The members of a set of positions, ascending.
RECURSIVE Ascending(_)
Ascending(S) ==
    IF S = {} THEN <<>>
    ELSE LET m == CHOOSE x \in S : \A y \in S : x <= y
         IN <<m>> \o Ascending(S \ {m})

----------------------------------------------------------------------------
(* Key cleaning, de-duplication, column detection *)

\* df[name] = df[name].astype(str).str.strip()
CleanKey(df, name) ==
    SetColumn(df, name,
              [r \in 1..Len(df.rows) |-> StrStrip(AsType_str(Column(df, name)[r]))])

\* df.drop_duplicates(subset=[name], keep="last")
DropDuplicatesKeepLast(df, name) ==
    LET k == IndexOf(df.cols, name)
        keep == {r \in 1..Len(df.rows) :
                   \A j \in (r + 1)..Len(df.rows) : df.rows[j][k] # df.rows[r][k]}
    IN [df EXCEPT !.rows = [i \in 1..Cardinality(keep) |-> df.rows[Ascending(keep)[i]]]]

\* No de-duplication at all.
DropDuplicatesNone(df, name) == df

\* df.drop_duplicates(subset=[name], keep="first")
DropDuplicates(df, name) ==
    LET k == IndexOf(df.cols, name)
        keep == {r \in 1..Len(df.rows) :
                   \A j \in 1..(r - 1) : df.rows[j][k] # df.rows[r][k]}
    IN [df EXCEPT !.rows = [i \in 1..Cardinality(keep) |-> df.rows[Ascending(keep)[i]]]]

\* [c for c in columns if c.lower().startswith(prefix)]
PrefixCandidates(cols, prefix) ==
    {i \in 1..Len(cols) : StartsWith(Lower(cols[i]), prefix)}

\* [c for c in columns if "vendor" in c.lower() and "sku" in c.lower()]
VendorCandidates(cols) ==
    {i \in 1..Len(cols) : Contains(Lower(cols[i]), S_SubVendor)
                          /\ Contains(Lower(cols[i]), S_SubSku)}

\* candidates[0]
First(S) == CHOOSE i \in S : \A j \in S : i <= j

\* The CP column is found by prefix, else it is column I (index 8).
CpFound(cols) == PrefixCandidates(cols, S_PfxCp) # {} \/ Len(cols) > 8

CpCol(cols) ==
    IF PrefixCandidates(cols, S_PfxCp) # {}
    THEN cols[First(PrefixCandidates(cols, S_PfxCp))]
    ELSE cols[9]

FnsFound(cols) == PrefixCandidates(cols, S_PfxFns) # {}

FnsCol(cols) == cols[First(PrefixCandidates(cols, S_PfxFns))]

\* The vendor column: by substring, else column D (index 3), else the last one.
VendorCol(cols) ==
    IF VendorCandidates(cols) # {} THEN cols[First(VendorCandidates(cols))]
    ELSE IF Len(cols) > 3 THEN cols[4]
    ELSE cols[Len(cols)]

\* flipkart_unique.columns[1]
KeyCol(cols) == cols[2]

----------------------------------------------------------------------------
(* Lookup and join *)

IndexUnique(index) ==
    \A i, j \in 1..Len(index) : index[i] = index[j] => i = j

\* Series.map(series) for one key: the value at the key's index entry, else NaN.
Lookup(key, index, values) ==
    IF \E i \in 1..Len(index) : index[i] = key
    THEN values[CHOOSE i \in 1..Len(index) : index[i] = key]
    ELSE NaN

\* keys.map(df.set_index(indexName)[valueName]); defined when the index is unique.
MapSeries(keys, df, indexName, valueName) ==
    [r \in 1..Len(keys) |->
        Lookup(keys[r], Column(df, indexName), Column(df, valueName))]

\* The rows a left row joins to: one per matching right row, in right order,
\* or one row of missing values when nothing matches.
JoinRow(lrow, lk, right, rk) ==
    LET hits == {j \in 1..Len(right.rows) : right.rows[j][rk] = lrow[lk]}
    IN IF hits = {}
       THEN << lrow \o [i \in 1..Len(right.cols) |-> NaN] >>
       ELSE [i \in 1..Cardinality(hits) |-> lrow \o right.rows[Ascending(hits)[i]]]

RECURSIVE JoinRows(_, _, _, _)
JoinRows(lrows, lk, right, rk) ==
    IF lrows = <<>> THEN <<>>
    ELSE JoinRow(Head(lrows), lk, right, rk) \o JoinRows(Tail(lrows), lk, right, rk)

\* left.merge(right, left_on=lname, right_on=rname, how="left")
MergeLeft(left, lname, right, rname) ==
    [cols |-> left.cols \o right.cols,
     rows |-> JoinRows(left.rows, IndexOf(left.cols, lname),
                       right, IndexOf(right.cols, rname))]

\* df.drop(columns=[name], errors="ignore")
DropColumn(df, name) ==
    LET keep == {i \in 1..Len(df.cols) : df.cols[i] # name}
    IN Select(df, [i \in 1..Cardinality(keep) |-> df.cols[Ascending(keep)[i]]])

----------------------------------------------------------------------------
(* Column order *)

\* cols.insert(cols.index(anchor) + 1, cols.pop(cols.index(name))): the anchor's
\* position is read before the pop.
MoveAfter(cols, anchor, name) ==
    IF HasCol(cols, anchor) /\ HasCol(cols, name)
    THEN ListInsert(ListRemoveAt(cols, IndexOf(cols, name)),
                    IndexOf(cols, anchor), name)
    ELSE cols

\* cols.remove(name); cols.insert(cols.index(anchor) + 1, name)
RemoveThenInsertAfter(cols, anchor, name) ==
    IF HasCol(cols, anchor) /\ HasCol(cols, name)
    THEN LET rest == ListRemoveAt(cols, IndexOf(cols, name))
         IN ListInsert(rest, IndexOf(rest, anchor), name)
    ELSE cols

\* The three moves of COLUMN ORDER ADJUSTMENTS.
OrderedColumns(cols) ==
    RemoveThenInsertAfter(
        MoveAfter(MoveAfter(cols, S_GrossUnits, S_Cost), S_Cost, S_Fns),
        S_Fns, S_VendorSkuCode)

\* final_df.columns.str.strip()
StripColumns(df) == [df EXCEPT !.cols = [i \in 1..Len(df.cols) |-> Strip(df.cols[i])]]

----------------------------------------------------------------------------
(* Rollups *)

\* One row of final_df, by the fields the rollups read.
Enriched(df) ==
    [r \in 1..Len(df.rows) |->
        [Manager |-> Column(df, S_Manager)[r],
         Brand |-> Column(df, S_Brand)[r],
         FNS |-> Column(df, S_Fns)[r],
         GrossUnits |-> Column(df, S_GrossUnits)[r].n,
         Sales |-> Column(df, S_Sales)[r].n,
         cost |-> Column(df, S_Cost)[r].n]]

GroupKey(row, fields) == [i \in 1..Len(fields) |-> row[fields[i]]]

HasNaN(key) == \E i \in 1..Len(key) : IsNaN(key[i])

\* Sum of one measure over the rows of a group.
GroupSum(rows, fields, key, measure) ==
    SumSeq([i \in 1..Len(rows) |->
              IF GroupKey(rows[i], fields) = key THEN rows[i][measure] ELSE 0])

\* rows.groupby(fields, dropna=dropna)[agg_cols].sum(): one row per key present,
\* keys ascending; with dropna a key holding a missing value is left out.
GroupBy(rows, fields, dropna) ==
    LET present == {GroupKey(rows[i], fields) : i \in 1..Len(rows)}
        keys == SortedKeys({k \in present : ~(dropna /\ HasNaN(k))})
    IN [i \in 1..Len(keys) |->
          [key |-> keys[i],
           GrossUnits |-> GroupSum(rows, fields, keys[i], "GrossUnits"),
           Sales |-> GroupSum(rows, fields, keys[i], "Sales"),
           cost |-> GroupSum(rows, fields, keys[i], "cost")]]

\* final_df.pivot_table(index=field, values=["Gross Units", "Sales"],
\* aggfunc="sum"): rows whose index value is missing are left out.
PivotTable(rows, field) ==
    LET g == GroupBy(rows, <<field>>, TRUE)
    IN [i \in 1..Len(g) |->
          [label |-> g[i].key[1], GrossUnits |-> g[i].GrossUnits, Sales |-> g[i].Sales]]

Measure(rows, m) == SumSeq([i \in 1..Len(rows) |-> rows[i][m]])

\* pivot.loc["Grand Total"] = pivot.sum(): a row labelled "Grand Total" is
\* overwritten where it stands; otherwise the row is appended.
WithGrandTotal(pivot) ==
    LET total == [label |-> Str(S_GrandTotal),
                  GrossUnits |-> Measure(pivot, "GrossUnits"),
                  Sales |-> Measure(pivot, "Sales")]
    IN IF \E i \in 1..Len(pivot) : pivot[i].label = Str(S_GrandTotal)
       THEN [i \in 1..Len(pivot) |->
               IF pivot[i].label = Str(S_GrandTotal) THEN total ELSE pivot[i]]
       ELSE Append(pivot, total)

\* combined["is_grand"] = (combined["FNS"] == "Grand Total").astype(int)
IsGrand(fns) == IF fns = Str(S_GrandTotal) THEN 1 ELSE 0

\* Tab 5, base_bf: Brand x FNS detail rows, missing keys kept.
BaseBF(rows) ==
    LET g == GroupBy(rows, <<"Brand", "FNS">>, FALSE)
    IN [i \in 1..Len(g) |->
          [Brand |-> g[i].key[1], FNS |-> g[i].key[2], GrossUnits |-> g[i].GrossUnits,
           Sales |-> g[i].Sales, cost |-> g[i].cost, order |-> 0]]

\* Tab 5, brand_totals_bf: base_bf.groupby(["Brand"]) with the default dropna.
BrandTotalsBF(base) ==
    LET g == GroupBy(base, <<"Brand">>, TRUE)
    IN [i \in 1..Len(g) |->
          [Brand |-> g[i].key[1], FNS |-> Concat(g[i].key[1], S_TotalSuffix),
           GrossUnits |-> g[i].GrossUnits, Sales |-> g[i].Sales,
           cost |-> g[i].cost, order |-> 1]]

GrandTotalBF(base) ==
    << [Brand |-> Str(<<>>), FNS |-> Str(S_GrandTotal),
        GrossUnits |-> Measure(base, "GrossUnits"), Sales |-> Measure(base, "Sales"),
        cost |-> Measure(base, "cost"), order |-> 2] >>

\* combined_bf.sort_values(by=["is_grand", "Brand", "order", "Gross Units"],
\*                         ascending=[True, True, True, False])
SortKeyBF(row) ==
    << Num(IsGrand(row.FNS)), row.Brand, Num(row.order), Num(0 - row.GrossUnits) >>

Sorted(rows, keys) ==
    LET s == StableSort([i \in 1..Len(rows) |-> [k |-> keys[i], v |-> rows[i]]])
    IN [i \in 1..Len(s) |-> s[i].v]

CombinedBF(rows) ==
    LET base == BaseBF(rows)
        all == base \o BrandTotalsBF(base) \o GrandTotalBF(base)
    IN Sorted(all, [i \in 1..Len(all) |-> SortKeyBF(all[i])])

\* "Brand" + " Total" raises when a brand that reaches the totals is a number.
LabelsRaise(rows, fields) ==
    \E i \in 1..Len(rows) :
        ~HasNaN(GroupKey(rows[i], fields)) /\ ~CanConcat(rows[i][fields[Len(fields)]])

\* Tab 6, base: Manager x Brand x FNS detail rows, missing keys kept.
Base(rows) ==
    LET g == GroupBy(rows, <<"Manager", "Brand", "FNS">>, FALSE)
    IN [i \in 1..Len(g) |->
          [Manager |-> g[i].key[1], Brand |-> g[i].key[2], FNS |-> g[i].key[3],
           GrossUnits |-> g[i].GrossUnits, Sales |-> g[i].Sales,
           cost |-> g[i].cost, order |-> 0]]

\* Tab 6, brand_totals: base.groupby(["Manager", "Brand"]) with the default dropna.
BrandTotals(base) ==
    LET g == GroupBy(base, <<"Manager", "Brand">>, TRUE)
    IN [i \in 1..Len(g) |->
          [Manager |-> g[i].key[1], Brand |-> g[i].key[2],
           FNS |-> Concat(g[i].key[2], S_TotalSuffix),
           GrossUnits |-> g[i].GrossUnits, Sales |-> g[i].Sales,
           cost |-> g[i].cost, order |-> 1]]

\* Tab 6, manager_totals: the Brand field is the empty text.
ManagerTotals(base) ==
    LET g == GroupBy(base, <<"Manager">>, TRUE)
    IN [i \in 1..Len(g) |->
          [Manager |-> g[i].key[1], Brand |-> Str(<<>>),
           FNS |-> Concat(g[i].key[1], S_TotalSuffix),
           GrossUnits |-> g[i].GrossUnits, Sales |-> g[i].Sales,
           cost |-> g[i].cost, order |-> 2]]

GrandTotal(base) ==
    << [Manager |-> Str(<<>>), Brand |-> Str(<<>>), FNS |-> Str(S_GrandTotal),
        GrossUnits |-> Measure(base, "GrossUnits"), Sales |-> Measure(base, "Sales"),
        cost |-> Measure(base, "cost"), order |-> 3] >>

\* combined.sort_values(by=["is_grand", "Manager", "Brand", "order", "Gross Units"],
\*                      ascending=[True, True, True, True, False])
SortKey(row) ==
    << Num(IsGrand(row.FNS)), row.Manager, row.Brand, Num(row.order),
       Num(0 - row.GrossUnits) >>

Combined(rows) ==
    LET base == Base(rows)
        all == base \o BrandTotals(base) \o ManagerTotals(base) \o GrandTotal(base)
    IN Sorted(all, [i \in 1..Len(all) |-> SortKey(all[i])])

----------------------------------------------------------------------------
(* The uploaded files the model runs the script on *)

\* Largest number of rows of an uploaded catalog / transaction table.
MaxCatalogRows == 2
MaxTxRows == 2

H_Cp == <<"C", "P">>
H_CpPrice == <<"c", "p", " ", "p", "r", "i", "c", "e">>
H_FnsCode == <<"f", "n", "s", " ", "c", "o", "d", "e">>
H_Sr == <<"S", "r">>
H_Sku == <<"S", "k", "u">>
H_Item == <<"I", "t", "e", "m">>
H_Price == <<"P", "r", "i", "c", "e">>
H_Month == <<"M", "o", "n", "t", "h">>
H_Units == <<"U", "n", "i", "t", "s">>
H_Revenue == <<"R", "e", "v", "e", "n", "u", "e">>
H_Product == <<"P", "r", "o", "d", "u", "c", "t">>
H_GrossUnitsPadded == <<" ">> \o S_GrossUnits \o <<" ">>

Col(h, role) == [h |-> h, role |-> role]

\* Catalog sheets: the usual one, one without a vendor-named column whose column B
\* is the manager, one whose cost column is found by position, and four that
\* lack a mandatory column.
CatalogLayouts ==
    { << Col(S_SkuName, "key"), Col(H_Sku, "sku"), Col(S_BrandManager, "mgr"),
         Col(S_VendorSkuCode, "vendor"), Col(S_Brand, "brand"), Col(H_Cp, "cp"),
         Col(S_Fns, "fns") >>,
      << Col(S_SkuName, "key"), Col(S_BrandManager, "mgr"), Col(S_Brand, "brand"),
         Col(H_Item, "vendor"), Col(H_CpPrice, "cp"), Col(H_FnsCode, "fns") >>,
      << Col(H_Sr, "other"), Col(S_SkuName, "key"), Col(S_BrandManager, "mgr"),
         Col(S_VendorSkuCode, "vendor"), Col(S_Brand, "brand"), Col(S_Fns, "fns"),
         Col(H_Item, "other"), Col(H_Month, "other"), Col(H_Price, "cp") >>,
      << Col(S_SkuName, "key"), Col(H_Sku, "sku"), Col(S_BrandManager, "mgr"),
         Col(S_Brand, "brand"), Col(H_Cp, "cp") >>,
      << Col(S_SkuName, "key"), Col(H_Sku, "sku"), Col(S_BrandManager, "mgr"),
         Col(H_Cp, "cp"), Col(S_Fns, "fns") >>,
      << Col(H_Item, "key"), Col(H_Sku, "sku"), Col(S_BrandManager, "mgr"),
         Col(S_Brand, "brand"), Col(H_Cp, "cp"), Col(S_Fns, "fns") >>,
      << Col(S_SkuName, "key"), Col(H_Sku, "sku"), Col(S_BrandManager, "mgr"),
         Col(S_Brand, "brand"), Col(H_Price, "cp"), Col(S_Fns, "fns") >> }

StandardCatalogLayout ==
    << Col(S_SkuName, "key"), Col(H_Sku, "sku"), Col(S_BrandManager, "mgr"),
       Col(S_VendorSkuCode, "vendor"), Col(S_Brand, "brand"), Col(H_Cp, "cp"),
       Col(S_Fns, "fns") >>

\* Transaction extracts: the usual one, one whose units header is padded with
\* blanks, one that already has "cost" and "Brand" columns, and three that lack
\* a mandatory column.
TopLayouts ==
    { << Col(S_SkuId, "key"), Col(S_GrossUnits, "units"), Col(S_FinalSaleAmount, "sales") >>,
      << Col(H_Month, "other"), Col(S_SkuId, "key"), Col(H_GrossUnitsPadded, "units"),
         Col(S_Sales, "sales") >>,
      << Col(S_SkuId, "key"), Col(S_Cost, "other"), Col(S_GrossUnits, "units"),
         Col(S_FinalSalesAmount, "sales"), Col(S_Brand, "other") >>,
      << Col(S_SkuId, "key"), Col(S_GrossUnits, "units"), Col(H_Revenue, "sales") >>,
      << Col(H_Product, "key"), Col(S_GrossUnits, "units"), Col(S_Sales, "sales") >>,
      << Col(S_SkuId, "key"), Col(H_Units, "units"), Col(S_Sales, "sales") >> }

StandardTopLayout ==
    << Col(S_SkuId, "key"), Col(S_GrossUnits, "units"), Col(S_FinalSaleAmount, "sales") >>

\* pd.read_excel / pd.read_csv: the table a sheet of the given layout loads as.
ReadTable(layout, sheet) ==
    [cols |-> [i \in 1..Len(layout) |-> layout[i].h],
     rows |-> [r \in 1..Len(sheet) |->
                 [i \in 1..Len(layout) |-> sheet[r][layout[i].role]]]]

Txt(a, b) == Str(<<a, b>>)

\* Catalog keys: two that differ only by surrounding blanks, and another one.
CatalogKeys == { <<"A", "1">>, <<" ", "A", "1">>, <<"A", "2">> }

\* Two catalog rows' worth of attributes, different in every enrichment field.
CatalogRowChoices ==
    { [key |-> Str(k), sku |-> Str(k), mgr |-> Txt("M", "1"), brand |-> Txt("B", "1"),
       cp |-> Num(10), fns |-> Txt("F", "1"), vendor |-> Txt("V", "1"),
       other |-> Txt("o", "1")] : k \in CatalogKeys }
    \cup
    { [key |-> Str(k), sku |-> Txt("S", "9"), mgr |-> Txt("M", "2"),
       brand |-> Str(<<"G", "r", "a", "n", "d">>), cp |-> Txt("x", "x"),
       fns |-> Str(S_GrandTotal), vendor |-> NaN, other |-> Txt("o", "2")]
      : k \in CatalogKeys }

\* Transaction rows: a key that matches after stripping, one that matches as it
\* is, and one that is in no catalog.
TxRowChoices ==
    { [key |-> Str(<<"A", "1", " ">>), units |-> Num(5), sales |-> Num(100),
       other |-> Txt("t", "1")],
      [key |-> Txt("A", "2"), units |-> Num(2), sales |-> Num(40),
       other |-> Txt("t", "2")],
      [key |-> Txt("A", "3"), units |-> Num(3), sales |-> Num(30),
       other |-> Txt("t", "3")] }

SeqsUpTo(S, n) == UNION {[1..m -> S] : m \in 1..n}

\* The second catalog row of the sheets that vary one row's cells over text,
\* numbers and missing values.
VariedCatalogRows ==
    { [key |-> Txt("A", "2"), sku |-> Txt("S", "2"), mgr |-> m, brand |-> b, cp |-> c,
       fns |-> f, vendor |-> Txt("V", "2"), other |-> Txt("o", "3")]
      : m \in {Txt("M", "1"), Txt("M", "2"), NaN},
        b \in {Txt("B", "1"), Txt("B", "2"), Str(<<"G", "r", "a", "n", "d">>), Num(7), NaN},
        c \in {Num(20), Txt("2", "0"), Txt("x", "x"), NaN},
        f \in {Txt("F", "1"), Txt("F", "2"), Str(S_GrandTotal), NaN} }

FirstCatalogRow ==
    [key |-> Txt("A", "1"), sku |-> Txt("S", "1"), mgr |-> Txt("M", "1"),
     brand |-> Txt("B", "1"), cp |-> Num(10), fns |-> Txt("F", "1"),
     vendor |-> Txt("V", "1"), other |-> Txt("o", "1")]

AllTxRows ==
    << CHOOSE t \in TxRowChoices : t.units = Num(5),
       CHOOSE t \in TxRowChoices : t.units = Num(2),
       CHOOSE t \in TxRowChoices : t.units = Num(3) >>

\* Some transaction row finds a catalog row with a manager and a brand: the
\* Brand and Manager pivots then have at least one group (what pivot_table
\* returns for an index with no value at all is decided inside pandas).
SomeRowEnriched(catalog, tx) ==
    \E t \in 1..Len(tx) : \E c \in 1..Len(catalog) :
        /\ StrStrip(AsType_str(catalog[c].key)) = StrStrip(AsType_str(tx[t].key))
        /\ \A d \in 1..(c - 1) :
              StrStrip(AsType_str(catalog[d].key)) # StrStrip(AsType_str(catalog[c].key))
        /\ ~IsNaN(catalog[c].mgr) /\ ~IsNaN(catalog[c].brand)

Upload(cl, catalog, tl, tx) ==
    [flipkart |-> ReadTable(cl, catalog), top |-> ReadTable(tl, tx)]

\* Every pair of uploaded files the model runs: catalogs and transaction tables
\* of every length and row choice on the usual sheets; every sheet layout with
\* two fixed catalogs; and every mix of cell types in one catalog row.
Uploads ==
    { Upload(StandardCatalogLayout, p[1], StandardTopLayout, p[2]) :
        p \in {q \in SeqsUpTo(CatalogRowChoices, MaxCatalogRows)
                        \X SeqsUpTo(TxRowChoices, MaxTxRows) :
                 SomeRowEnriched(q[1], q[2])} }
    \cup
    { Upload(cl, <<FirstCatalogRow, v>>, tl, AllTxRows) :
        cl \in CatalogLayouts, tl \in TopLayouts,
        v \in {w \in VariedCatalogRows :
                 /\ w.brand = Txt("B", "2") /\ w.cp = Num(20) /\ w.fns = Txt("F", "2")
                 /\ ~IsNaN(w.mgr)} }
    \cup
    { Upload(StandardCatalogLayout, <<FirstCatalogRow, v>>, StandardTopLayout, AllTxRows) :
        v \in VariedCatalogRows }

----------------------------------------------------------------------------
(* The script as a state machine: one action per section of src/app1.py *)

VARIABLES
    pc,               \* the section of the script that runs next
    flipkart,         \* the catalog table
    top,              \* the transaction table
    flipkart_unique,  \* the catalog, one row per key
    cp_col,           \* header of the cost column
    fns_col,          \* header of the classification column
    final_df,         \* the enriched table
    pivot_brand,      \* Brand rollup
    pivot_manager,    \* Manager rollup
    combined_bf,      \* Brand x FNS rollup, sorted
    combined,         \* Manager x Brand x FNS rollup, sorted
    emitted,          \* what the page shows so far, in order
    exception         \* the exception raised inside the try block and the
                      \* section that raised it (its traceback)

vars ==
    << pc, flipkart, top, flipkart_unique, cp_col, fns_col, final_df, pivot_brand,
       pivot_manager, combined_bf, combined, emitted, exception >>

NoTable == [cols |-> <<>>, rows |-> <<>>]

NoException == [kind |-> "", at |-> ""]

Init ==
    /\ pc = "load"
    /\ flipkart = NoTable
    /\ top = NoTable
    /\ flipkart_unique = NoTable
    /\ cp_col = <<>>
    /\ fns_col = <<>>
    /\ final_df = NoTable
    /\ pivot_brand = <<>>
    /\ pivot_manager = <<>>
    /\ combined_bf = <<>>
    /\ combined = <<>>
    /\ emitted = <<>>
    /\ exception = NoException

\* raise: control goes to the except clause.
Raise(kind) == pc' = "except" /\ exception' = [kind |-> kind, at |-> pc]

Goto(label) == pc' = label /\ exception' = exception

\* LOAD FILES
LoadFiles ==
    /\ pc = "load"
    /\ \E u \in Uploads : flipkart' = u.flipkart /\ top' = u.top
    /\ Goto("validate")
    /\ UNCHANGED << flipkart_unique, cp_col, fns_col, final_df, pivot_brand,
                    pivot_manager, combined_bf, combined, emitted >>

\* BASIC VALIDATION
Validate ==
    /\ pc = "validate"
    /\ IF ~HasCol(top.cols, S_SkuId) \/ ~HasCol(flipkart.cols, S_SkuName)
       THEN Raise("KeyError")
       ELSE Goto("clean_keys")
    /\ UNCHANGED << flipkart, top, flipkart_unique, cp_col, fns_col, final_df,
                    pivot_brand, pivot_manager, combined_bf, combined, emitted >>

\* CLEAN KEYS, and Brand -> Brand1 in the transaction table
CleanKeys ==
    /\ pc = "clean_keys"
    /\ flipkart' = CleanKey(flipkart, S_SkuName)
    /\ top' = Rename(CleanKey(top, S_SkuId), S_Brand, S_Brand1)
    /\ Goto("drop_duplicates")
    /\ UNCHANGED << flipkart_unique, cp_col, fns_col, final_df, pivot_brand,
                    pivot_manager, combined_bf, combined, emitted >>

\* DROP DUPLICATES
DropDuplicatesStep ==
    /\ pc = "drop_duplicates"
    /\ flipkart_unique' = DropDuplicates(flipkart, S_SkuName)
    /\ Goto("detect_cp")
    /\ UNCHANGED << flipkart, top, cp_col, fns_col, final_df, pivot_brand,
                    pivot_manager, combined_bf, combined, emitted >>

\* DETECT CP COLUMN
DetectCP ==
    /\ pc = "detect_cp"
    /\ IF CpFound(flipkart_unique.cols)
       THEN cp_col' = CpCol(flipkart_unique.cols) /\ Goto("detect_fns")
       ELSE cp_col' = cp_col /\ Raise("KeyError")
    /\ UNCHANGED << flipkart, top, flipkart_unique, fns_col, final_df, pivot_brand,
                    pivot_manager, combined_bf, combined, emitted >>

\* DETECT FNS COLUMN
DetectFNS ==
    /\ pc = "detect_fns"
    /\ IF FnsFound(flipkart_unique.cols)
       THEN fns_col' = FnsCol(flipkart_unique.cols) /\ Goto("merge")
       ELSE fns_col' = fns_col /\ Raise("KeyError")
    /\ UNCHANGED << flipkart, top, flipkart_unique, cp_col, final_df, pivot_brand,
                    pivot_manager, combined_bf, combined, emitted >>

\* top.merge(flipkart_unique[[key, "Brand Manager", "Brand"]], how="left")
\*    .rename(columns={"Brand Manager": "Manager"}).drop(columns=[key])
Joined(left, right) ==
    DropColumn(
        Rename(MergeLeft(left, S_SkuId,
                         Select(right, <<S_SkuName, S_BrandManager, S_Brand>>),
                         S_SkuName),
               S_BrandManager, S_Manager),
        S_SkuName)

\* MERGE TOP + FLIPKART (BRAND / MANAGER)
Merge ==
    /\ pc = "merge"
    /\ IF HasCol(flipkart_unique.cols, S_BrandManager) /\ HasCol(flipkart_unique.cols, S_Brand)
       THEN final_df' = Joined(top, flipkart_unique) /\ Goto("add_cost")
       ELSE final_df' = final_df /\ Raise("KeyError")
    /\ UNCHANGED << flipkart, top, flipkart_unique, cp_col, fns_col, pivot_brand,
                    pivot_manager, combined_bf, combined, emitted >>

\* final_df["SKU ID"].map(<series of valueName indexed by indexName>)
Mapped(indexName, valueName) ==
    MapSeries(Column(final_df, S_SkuId), flipkart_unique, indexName, valueName)

\* ADD COST
AddCost ==
    /\ pc = "add_cost"
    /\ IF IndexUnique(Column(flipkart_unique, S_SkuName))
       THEN /\ final_df' =
                 SetColumn(final_df, S_Cost,
                           [r \in 1..Len(final_df.rows) |->
                               FillNa(ToNumeric(Mapped(S_SkuName, cp_col)[r]), Num(0))])
            /\ Goto("add_fns")
       ELSE final_df' = final_df /\ Raise("InvalidIndexError")
    /\ UNCHANGED << flipkart, top, flipkart_unique, cp_col, fns_col, pivot_brand,
                    pivot_manager, combined_bf, combined, emitted >>

\* ADD FNS
AddFNS ==
    /\ pc = "add_fns"
    /\ IF IndexUnique(Column(flipkart_unique, S_SkuName))
       THEN /\ final_df' =
                 SetColumn(final_df, S_Fns,
                           [r \in 1..Len(final_df.rows) |->
                               FillNa(Mapped(S_SkuName, fns_col)[r], Str(<<>>))])
            /\ Goto("vendor_sku")
       ELSE final_df' = final_df /\ Raise("InvalidIndexError")
    /\ UNCHANGED << flipkart, top, flipkart_unique, cp_col, fns_col, pivot_brand,
                    pivot_manager, combined_bf, combined, emitted >>

\* VENDOR SKU CODE.  set_index(column B) removes column B, so taking the vendor
\* column fails when it is column B itself; map() needs a unique index, so it
\* fails when column B holds a value twice.
VendorSKU ==
    /\ pc = "vendor_sku"
    /\ IF VendorCol(flipkart_unique.cols) = KeyCol(flipkart_unique.cols)
       THEN final_df' = final_df /\ Raise("KeyError")
       ELSE IF ~IndexUnique(Column(flipkart_unique, KeyCol(flipkart_unique.cols)))
       THEN final_df' = final_df /\ Raise("InvalidIndexError")
       ELSE /\ final_df' =
                 SetColumn(final_df, S_VendorSkuCode,
                           [r \in 1..Len(final_df.rows) |->
                               AsType_str(Mapped(KeyCol(flipkart_unique.cols),
                                                 VendorCol(flipkart_unique.cols))[r])])
            /\ Goto("column_order")
    /\ UNCHANGED << flipkart, top, flipkart_unique, cp_col, fns_col, pivot_brand,
                    pivot_manager, combined_bf, combined, emitted >>

\* COLUMN ORDER ADJUSTMENTS
ColumnOrder ==
    /\ pc = "column_order"
    /\ final_df' = Select(final_df, OrderedColumns(final_df.cols))
    /\ Goto("normalize_columns")
    /\ UNCHANGED << flipkart, top, flipkart_unique, cp_col, fns_col, pivot_brand,
                    pivot_manager, combined_bf, combined, emitted >>

\* NORMALIZE COLUMN NAMES
NormalizeColumns ==
    /\ pc = "normalize_columns"
    /\ final_df' = StripColumns(final_df)
    /\ Goto("map_sales")
    /\ UNCHANGED << flipkart, top, flipkart_unique, cp_col, fns_col, pivot_brand,
                    pivot_manager, combined_bf, combined, emitted >>

\* The header the sales column is taken from, when there is one.
SalesSource(cols) ==
    IF HasCol(cols, S_Sales) THEN S_Sales
    ELSE IF HasCol(cols, S_FinalSaleAmount) THEN S_FinalSaleAmount
    ELSE S_FinalSalesAmount

\* MAP SALES COLUMN, and the check for "Gross Units"
MapSales ==
    /\ pc = "map_sales"
    /\ IF ~HasCol(final_df.cols, SalesSource(final_df.cols))
       THEN final_df' = final_df /\ Raise("KeyError")
       ELSE /\ final_df' = Rename(final_df, SalesSource(final_df.cols), S_Sales)
            /\ IF HasCol(final_df.cols, S_GrossUnits)
               THEN Goto("summary_metrics")
               ELSE Raise("KeyError")
    /\ UNCHANGED << flipkart, top, flipkart_unique, cp_col, fns_col, pivot_brand,
                    pivot_manager, combined_bf, combined, emitted >>

\* SUMMARY METRICS: the four st.metric calls.
SummaryMetrics ==
    /\ pc = "summary_metrics"
    /\ emitted' = emitted \o << "metric_total_units", "metric_total_sales",
                                "metric_brands", "metric_managers" >>
    /\ Goto("pivots")
    /\ UNCHANGED << flipkart, top, flipkart_unique, cp_col, fns_col, final_df,
                    pivot_brand, pivot_manager, combined_bf, combined >>

\* PIVOTS
Pivots ==
    /\ pc = "pivots"
    /\ pivot_brand' = WithGrandTotal(PivotTable(Enriched(final_df), "Brand"))
    /\ pivot_manager' = WithGrandTotal(PivotTable(Enriched(final_df), "Manager"))
    /\ Goto("tab1")
    /\ UNCHANGED << flipkart, top, flipkart_unique, cp_col, fns_col, final_df,
                    combined_bf, combined, emitted >>

\* Output of a section that only shows what is already computed.
Show(outputs, next) ==
    /\ emitted' = emitted \o outputs
    /\ Goto(next)
    /\ UNCHANGED << flipkart, top, flipkart_unique, cp_col, fns_col, final_df,
                    pivot_brand, pivot_manager, combined_bf, combined >>

\* TAB 1: BRAND
Tab1 ==
    /\ pc = "tab1"
    /\ Show(<< "brand_table", "brand_download", "brand_bar_chart" >>, "tab2")

\* TAB 2: MANAGER
Tab2 ==
    /\ pc = "tab2"
    /\ Show(<< "manager_table", "manager_download", "manager_bar_chart" >>, "tab3")

\* TAB 3: RAW DATA
Tab3 ==
    /\ pc = "tab3"
    /\ Show(<< "enriched_table", "enriched_download" >>, "tab4")

\* TAB 4: CHARTS
Tab4 ==
    /\ pc = "tab4"
    /\ Show(<< "brand_pie_chart", "manager_pie_chart" >>, "tab5")

\* TAB 5: BRAND / FNS
Tab5 ==
    /\ pc = "tab5"
    /\ IF LabelsRaise(BaseBF(Enriched(final_df)), <<"Brand">>)
       THEN /\ Raise("TypeError")
            /\ UNCHANGED << combined_bf, emitted >>
       ELSE /\ combined_bf' = CombinedBF(Enriched(final_df))
            /\ emitted' = emitted \o << "brand_fns_table", "brand_fns_download" >>
            /\ Goto("tab6")
    /\ UNCHANGED << flipkart, top, flipkart_unique, cp_col, fns_col, final_df,
                    pivot_brand, pivot_manager, combined >>

\* TAB 6: MANAGER / BRAND / FNS
Tab6 ==
    /\ pc = "tab6"
    /\ IF \/ LabelsRaise(Base(Enriched(final_df)), <<"Manager", "Brand">>)
          \/ LabelsRaise(Base(Enriched(final_df)), <<"Manager">>)
       THEN /\ Raise("TypeError")
            /\ UNCHANGED << combined, emitted >>
       ELSE /\ combined' = Combined(Enriched(final_df))
            /\ emitted' = emitted \o << "manager_brand_fns_table",
                                        "manager_brand_fns_download" >>
            /\ Goto("success")
    /\ UNCHANGED << flipkart, top, flipkart_unique, cp_col, fns_col, final_df,
                    pivot_brand, pivot_manager, combined_bf >>

\* st.success(...)
Success ==
    /\ pc = "success"
    /\ Show(<< "success" >>, "done")

\* except Exception: st.error(...), st.info(...)
ExceptHandler ==
    /\ pc = "except"
    /\ Show(<< "error", "info" >>, "done")

Next ==
    \/ LoadFiles
    \/ Validate
    \/ CleanKeys
    \/ DropDuplicatesStep
    \/ DetectCP
    \/ DetectFNS
    \/ Merge
    \/ AddCost
    \/ AddFNS
    \/ VendorSKU
    \/ ColumnOrder
    \/ NormalizeColumns
    \/ MapSales
    \/ SummaryMetrics
    \/ Pivots
    \/ Tab1
    \/ Tab2
    \/ Tab3
    \/ Tab4
    \/ Tab5
    \/ Tab6
    \/ Success
    \/ ExceptHandler

Spec == Init /\ [][Next]_vars

----------------------------------------------------------------------------
(* Properties *)

\* The run went through every section without an exception.
Completed == pc = "done" /\ exception = NoException

\* Cost and FNS have been attached to final_df.
EnrichmentDone ==
    \/ pc \in {"vendor_sku", "column_order", "normalize_columns", "map_sales",
               "summary_metrics", "pivots", "tab1", "tab2", "tab3", "tab4", "tab5",
               "tab6", "success"}
    \/ Completed

\* The run got past every check of the uploaded columns.
Accepted ==
    \/ pc \in {"summary_metrics", "pivots", "tab1", "tab2", "tab3", "tab4", "tab5",
               "tab6", "success"}
    \/ Completed

\* The header a transaction column goes by in final_df: as uploaded, stripped,
\* or renamed to "Sales".
CurrentName(h) ==
    IF HasCol(final_df.cols, h) THEN h
    ELSE IF HasCol(final_df.cols, Strip(h)) THEN Strip(h)
    ELSE S_Sales

\* The transaction columns the enrichment does not write to.
OwnColumns ==
    {i \in 1..Len(top.cols) : top.cols[i] \notin {S_Cost, S_Fns, S_VendorSkuCode}}

\* Row r of final_df holds row r of the transaction table, field by field.
CarriesTransaction(r) ==
    \A i \in OwnColumns : Column(final_df, CurrentName(top.cols[i]))[r] = top.rows[r][i]

\* The catalog row (after key cleaning) that holds key k first.
IsFirstWithKey(i, k) ==
    /\ Column(flipkart, S_SkuName)[i] = k
    /\ \A j \in 1..(i - 1) : Column(flipkart, S_SkuName)[j] # k

InCatalog(k) == \E i \in 1..Len(flipkart.rows) : Column(flipkart, S_SkuName)[i] = k

\* C1: once the join has run, the enriched table has exactly one row per
\* transaction row, in the transaction table's order, each carrying that
\* transaction row's own fields; catalogs with duplicate keys and keys that differ
\* only by surrounding whitespace included.
JoinCardinality ==
    final_df # NoTable =>
        /\ Len(final_df.rows) = Len(top.rows)
        /\ \A r \in 1..Len(final_df.rows) : r <= Len(top.rows) => CarriesTransaction(r)

\* C1 witness: a completed run whose catalog held a key twice (after stripping)
\* and whose transaction table has two rows with that key.
JoinCardinalityWitness ==
    /\ Completed
    /\ \E i, j \in 1..Len(flipkart.rows) :
          /\ i < j
          /\ Column(flipkart, S_SkuName)[i] = Column(flipkart, S_SkuName)[j]
          /\ \E r, q \in 1..Len(final_df.rows) :
                /\ r < q
                /\ Column(final_df, S_SkuId)[r] = Column(flipkart, S_SkuName)[i]
                /\ Column(final_df, S_SkuId)[q] = Column(flipkart, S_SkuName)[i]

\* C2: de-duplication keeps, for every key, the catalog row with the lowest
\* index and nothing else, in catalog order; applying it again changes nothing;
\* and every enriched row whose key is in the catalog has the manager, brand,
\* cost and classification code of the first catalog row with that key.
FirstMatchWins ==
    /\ flipkart_unique # NoTable =>
          /\ DropDuplicates(flipkart_unique, S_SkuName) = flipkart_unique
          /\ \A u \in 1..Len(flipkart_unique.rows) :
                \E i \in 1..Len(flipkart.rows) :
                    /\ flipkart.rows[i] = flipkart_unique.rows[u]
                    /\ IsFirstWithKey(i, Column(flipkart_unique, S_SkuName)[u])
          /\ \A u, w \in 1..Len(flipkart_unique.rows) :
                u < w =>
                    \E i, j \in 1..Len(flipkart.rows) :
                        /\ i < j
                        /\ flipkart.rows[i] = flipkart_unique.rows[u]
                        /\ flipkart.rows[j] = flipkart_unique.rows[w]
          /\ \A i \in 1..Len(flipkart.rows) :
                \E u \in 1..Len(flipkart_unique.rows) :
                    Column(flipkart_unique, S_SkuName)[u] = Column(flipkart, S_SkuName)[i]
    /\ EnrichmentDone =>
          \A r \in 1..Len(final_df.rows) : \A i \in 1..Len(flipkart.rows) :
              IsFirstWithKey(i, Column(final_df, S_SkuId)[r]) =>
                  /\ Column(final_df, S_Manager)[r] = Column(flipkart, S_BrandManager)[i]
                  /\ Column(final_df, S_Brand)[r] = Column(flipkart, S_Brand)[i]
                  /\ Column(final_df, S_Cost)[r]
                        = FillNa(ToNumeric(Column(flipkart, cp_col)[i]), Num(0))
                  /\ Column(final_df, S_Fns)[r]
                        = FillNa(Column(flipkart, fns_col)[i], Str(<<>>))

\* C2 witness: a completed run in which a transaction row's key is held by two
\* catalog rows that differ in brand, manager, cost and classification code.
FirstMatchWinsWitness ==
    /\ Completed
    /\ \E i, j \in 1..Len(flipkart.rows) : \E r \in 1..Len(final_df.rows) :
          /\ i < j
          /\ Column(flipkart, S_SkuName)[i] = Column(final_df, S_SkuId)[r]
          /\ Column(flipkart, S_SkuName)[j] = Column(final_df, S_SkuId)[r]
          /\ Column(flipkart, S_Brand)[i] # Column(flipkart, S_Brand)[j]
          /\ Column(flipkart, S_BrandManager)[i] # Column(flipkart, S_BrandManager)[j]
          /\ Column(flipkart, cp_col)[i] # Column(flipkart, cp_col)[j]
          /\ Column(flipkart, fns_col)[i] # Column(flipkart, fns_col)[j]

\* Sum of a measure over the rows that satisfy P.
SumWhere(rows, P(_), m) ==
    SumSeq([i \in 1..Len(rows) |-> IF P(rows[i]) THEN rows[i][m] ELSE 0])

RowsOfOrder(rows, o) == {i \in 1..Len(rows) : rows[i].order = o}

\* Row s carries the sums of the rows of order o that satisfy P.
SumsUp(s, rows, o, P(_)) ==
    /\ s.GrossUnits = SumWhere(rows, LAMBDA x : x.order = o /\ P(x), "GrossUnits")
    /\ s.Sales = SumWhere(rows, LAMBDA x : x.order = o /\ P(x), "Sales")
    /\ s.cost = SumWhere(rows, LAMBDA x : x.order = o /\ P(x), "cost")

\* C3: in the Brand x FNS and the Manager x Brand x FNS rollups, every prefix
\* value found among the DETAIL rows - a missing value included - has a SUBTOTAL
\* row holding the sum of the DETAIL rows under it, and the outermost SUBTOTAL
\* rows sum to the GRAND_TOTAL row.
SubtotalConservation ==
    /\ combined_bf # <<>> =>
          /\ \A d \in RowsOfOrder(combined_bf, 0) :
                \E t \in RowsOfOrder(combined_bf, 1) :
                    /\ combined_bf[t].Brand = combined_bf[d].Brand
                    /\ SumsUp(combined_bf[t], combined_bf, 0,
                              LAMBDA x : x.Brand = combined_bf[d].Brand)
          /\ \E g \in RowsOfOrder(combined_bf, 2) :
                SumsUp(combined_bf[g], combined_bf, 1, LAMBDA x : TRUE)
    /\ combined # <<>> =>
          /\ \A d \in RowsOfOrder(combined, 0) :
                /\ \E t \in RowsOfOrder(combined, 1) :
                      /\ combined[t].Manager = combined[d].Manager
                      /\ combined[t].Brand = combined[d].Brand
                      /\ SumsUp(combined[t], combined, 0,
                                LAMBDA x : /\ x.Manager = combined[d].Manager
                                           /\ x.Brand = combined[d].Brand)
                /\ \E t \in RowsOfOrder(combined, 2) :
                      /\ combined[t].Manager = combined[d].Manager
                      /\ SumsUp(combined[t], combined, 0,
                                LAMBDA x : x.Manager = combined[d].Manager)
          /\ \E g \in RowsOfOrder(combined, 3) :
                SumsUp(combined[g], combined, 2, LAMBDA x : TRUE)

\* The pivot has, before its last row, a row for group value v of the field
\* (a missing value shown as the empty text or as itself) with the sums of the
\* enriched rows of that group; and its last row sums every enriched row.
PivotKeeps(pivot, field) ==
    LET rows == Enriched(final_df)
    IN /\ \A r \in 1..Len(rows) :
             \E p \in 1..(Len(pivot) - 1) :
                 /\ FillNa(pivot[p].label, Str(<<>>)) = FillNa(rows[r][field], Str(<<>>))
                 /\ pivot[p].GrossUnits
                       = SumWhere(rows, LAMBDA x : x[field] = rows[r][field], "GrossUnits")
                 /\ pivot[p].Sales
                       = SumWhere(rows, LAMBDA x : x[field] = rows[r][field], "Sales")
       /\ pivot[Len(pivot)].GrossUnits = SumWhere(rows, LAMBDA x : TRUE, "GrossUnits")
       /\ pivot[Len(pivot)].Sales = SumWhere(rows, LAMBDA x : TRUE, "Sales")

\* The rollup has a DETAIL row for the group of every enriched row, and its
\* grand-total row (order o) sums every enriched row.
RollupKeeps(rollup, fields, o) ==
    LET rows == Enriched(final_df)
    IN /\ \A r \in 1..Len(rows) :
             \E d \in RowsOfOrder(rollup, 0) :
                 /\ GroupKey(rollup[d], fields) = GroupKey(rows[r], fields)
                 /\ rollup[d].GrossUnits
                       = SumWhere(rows, LAMBDA x : GroupKey(x, fields)
                                                     = GroupKey(rows[r], fields),
                                  "GrossUnits")
       /\ \E g \in RowsOfOrder(rollup, o) :
             /\ rollup[g].GrossUnits = SumWhere(rows, LAMBDA x : TRUE, "GrossUnits")
             /\ rollup[g].Sales = SumWhere(rows, LAMBDA x : TRUE, "Sales")
             /\ rollup[g].cost = SumWhere(rows, LAMBDA x : TRUE, "cost")

\* C4: in each of the four rollups the enriched rows whose group key is missing
\* form a DETAIL group of their own, and the grand total is the sum of each
\* measure over all enriched rows.
MissingGroupKeysKept ==
    /\ pivot_brand # <<>> => PivotKeeps(pivot_brand, "Brand")
    /\ pivot_manager # <<>> => PivotKeeps(pivot_manager, "Manager")
    /\ combined_bf # <<>> => RollupKeeps(combined_bf, <<"Brand", "FNS">>, 2)
    /\ combined # <<>> => RollupKeeps(combined, <<"Manager", "Brand", "FNS">>, 3)

\* C5: an enriched row whose key is in no catalog row keeps its own fields and
\* has manager "", brand "", cost 0 and classification code "".
MissingKeyIsolation ==
    EnrichmentDone =>
        \A r \in 1..Len(final_df.rows) :
            ~InCatalog(Column(final_df, S_SkuId)[r]) =>
                /\ CarriesTransaction(r)
                /\ Column(final_df, S_Manager)[r] = Str(<<>>)
                /\ Column(final_df, S_Brand)[r] = Str(<<>>)
                /\ Column(final_df, S_Cost)[r] = Num(0)
                /\ Column(final_df, S_Fns)[r] = Str(<<>>)

\* The pivot has exactly one row labelled "Grand Total", the last one.
PivotGrandLast(pivot) ==
    {i \in 1..Len(pivot) : pivot[i].label = Str(S_GrandTotal)} = {Len(pivot)}

\* The rollup shows exactly one "Grand Total" row, the last one, and that row is
\* the grand total (order o).
RollupGrandLast(rollup, o) ==
    /\ {i \in 1..Len(rollup) : rollup[i].FNS = Str(S_GrandTotal)} = {Len(rollup)}
    /\ RowsOfOrder(rollup, o) = {Len(rollup)}

\* C6: every rollup has exactly one grand-total row and it is the final row,
\* whatever the data - a brand named "Grand" or a classification value
\* "Grand Total" included.
GrandTotalLast ==
    /\ pivot_brand # <<>> => PivotGrandLast(pivot_brand)
    /\ pivot_manager # <<>> => PivotGrandLast(pivot_manager)
    /\ combined_bf # <<>> => RollupGrandLast(combined_bf, 2)
    /\ combined # <<>> => RollupGrandLast(combined, 3)

\* Everything a successful run shows, in order.
CompleteResultSet ==
    << "metric_total_units", "metric_total_sales", "metric_brands", "metric_managers",
       "brand_table", "brand_download", "brand_bar_chart",
       "manager_table", "manager_download", "manager_bar_chart",
       "enriched_table", "enriched_download", "brand_pie_chart", "manager_pie_chart",
       "brand_fns_table", "brand_fns_download",
       "manager_brand_fns_table", "manager_brand_fns_download", "success" >>

\* C7: a run that ends with the error message has shown no result before it; a
\* finished run shows either the complete result set and the success message,
\* or the error message alone.
AllOrNothing ==
    /\ exception # NoException => \A i \in 1..Len(emitted) : emitted[i] \in {"error", "info"}
    /\ pc = "done" => emitted \in {CompleteResultSet, << "error", "info" >>}

\* C8: in the enriched table of an accepted run cost stands right after
\* "Gross Units", FNS right after cost, the vendor code right after FNS, the
\* other transaction columns keep their order, and Manager and Brand come after
\* all of them.
EnrichedColumnOrder ==
    Accepted =>
        LET cols == final_df.cols
            At(h) == IndexOf(cols, h)
        IN /\ At(S_Cost) = At(S_GrossUnits) + 1
           /\ At(S_Fns) = At(S_Cost) + 1
           /\ At(S_VendorSkuCode) = At(S_Fns) + 1
           /\ \A i, j \in OwnColumns :
                 i < j => At(CurrentName(top.cols[i])) < At(CurrentName(top.cols[j]))
           /\ \A i \in OwnColumns :
                 /\ At(CurrentName(top.cols[i])) < At(S_Manager)
                 /\ At(CurrentName(top.cols[i])) < At(S_Brand)

\* C9: for a catalog that has the mandatory columns the vendor-code section
\* never raises, and after it every enriched row has one vendor code.
VendorCodeNeverFails ==
    /\ exception.at # "vendor_sku"
    /\ pc \in {"column_order", "normalize_columns", "map_sales"} =>
          /\ HasCol(final_df.cols, S_VendorSkuCode)
          /\ Len(Column(final_df, S_VendorSkuCode)) = Len(top.rows)

\* C10: in the sorted Brand x FNS and Manager x Brand x FNS rollups every DETAIL
\* row stands before the SUBTOTAL row of each of its prefixes, and every
\* (Manager, Brand) SUBTOTAL before the SUBTOTAL of its Manager.
ChildrenPrecedeSubtotals ==
    /\ \A d \in RowsOfOrder(combined_bf, 0) : \A t \in RowsOfOrder(combined_bf, 1) :
          combined_bf[d].Brand = combined_bf[t].Brand => d < t
    /\ \A d \in RowsOfOrder(combined, 0) : \A t \in RowsOfOrder(combined, 1) :
          (combined[d].Manager = combined[t].Manager /\ combined[d].Brand = combined[t].Brand)
              => d < t
    /\ \A d \in RowsOfOrder(combined, 0) \cup RowsOfOrder(combined, 1) :
          \A t \in RowsOfOrder(combined, 2) :
              combined[d].Manager = combined[t].Manager => d < t

====
